---- MODULE Spec2Model ----
(***************************************************************************)
(* TCTMDDownloader (src/tctmd_downloader.py) as a state machine.           *)
(*                                                                         *)
(* Text (URLs, hrefs, the ledger file) is a sequence of one-character      *)
(* tokens.  The token "h" abbreviates the scheme and host                  *)
(* "https://www.tctmd.com", "/" is the path separator, "\n" the line end,  *)
(* "s" the path word "slide", "a" and "b" file names ending in ".pdf",     *)
(* "x" a name that does not.  Every string operation of the code           *)
(* (split, in, endswith, urljoin) is computed on these sequences.          *)
(***************************************************************************)
EXTENDS Integers, Sequences, FiniteSets, TLC

VARIABLES
    output_dir,     \* self.output_dir
    files,          \* the file system under the output directories
    ledger,         \* text of downloaded_pdfs.txt
    pc,             \* position of the single thread of control
    entry,          \* the method the caller invoked
    ret,            \* what the invoked method returned ("none" while running)
    \* ---- login / follow_okta_redirect / verify_login
    reqs,           \* requests issued by the current login call, in order
    root_resp,      \* response to the GET of the site root that seeds the cookies
    post_resp,      \* response to the login POST
    hop_resps,      \* responses to the redirect-hop GETs, in order
    verify_resp,    \* response to the verification GET
    current_url,    \* follow_okta_redirect: host of current_url
    okta_headers,   \* follow_okta_redirect: Host / Origin / Referer
    login_ret,      \* what login returned
    \* ---- download_pdf
    dl_url,         \* download_pdf: url
    attempt,        \* download_pdf: loop variable
    dl_resps,       \* outcomes of the GETs of the current download_pdf call
    dl_sleeps,      \* seconds slept by the current download_pdf call, in order
    dl_served,      \* what the site answers to each GET of the call that reaches it
    dl_ledger0,     \* the ledger text when the current download_pdf call began
    dl_ret,         \* what download_pdf returned
    \* ---- download_all_pdfs
    issued,         \* kinds of request issued so far by the current run
    pages,          \* page indices requested from the search page, in order
    search_resp,    \* get_presentation_urls_from_page: response
    presentations,  \* download_all_pdfs: presentations
    idx,            \* position in presentations[:2]
    pres_resp,      \* get_pdf_url_from_presentation: response
    pdf_url,        \* download_all_pdfs: pdf_url
    download_count  \* download_all_pdfs: download_count

persistVars == <<output_dir, files, ledger>>
loginVars == <<reqs, root_resp, post_resp, hop_resps, verify_resp, current_url, okta_headers, login_ret>>
dlVars == <<dl_url, attempt, dl_resps, dl_sleeps, dl_served, dl_ledger0, dl_ret>>
runVars == <<issued, pages, search_resp, presentations, idx, pres_resp, pdf_url, download_count>>
vars == <<output_dir, files, ledger, pc, entry, ret,
          reqs, root_resp, post_resp, hop_resps, verify_resp, current_url, okta_headers, login_ret,
          dl_url, attempt, dl_resps, dl_sleeps, dl_served, dl_ledger0, dl_ret,
          issued, pages, search_resp, presentations, idx, pres_resp, pdf_url, download_count>>

(***************************************************************************)
(* Text                                                                    *)
(***************************************************************************)
NL == "\n"

\* Python: s in t
IsSubstring(s, t) ==
    \E k \in 0..(Len(t) - Len(s)) : SubSeq(t, k + 1, k + Len(s)) = s

\* index of the last "/" of url, 0 when there is none
LastSlash(url) ==
    IF \E i \in 1..Len(url) : url[i] = "/"
    THEN CHOOSE i \in 1..Len(url) :
             url[i] = "/" /\ \A j \in (i + 1)..Len(url) : url[j] # "/"
    ELSE 0

\* url.split('/')[-1]
Basename(url) == SubSeq(url, LastSlash(url) + 1, Len(url))

\* the lines of a text, split at NL (a trailing NL ends the last line)
RECURSIVE Lines(_)
Lines(text) ==
    IF text = <<>> THEN <<>>
    ELSE IF \E i \in 1..Len(text) : text[i] = NL
         THEN LET i == CHOOSE k \in 1..Len(text) :
                           text[k] = NL /\ \A j \in 1..(k - 1) : text[j] # NL
              IN <<SubSeq(text, 1, i - 1)>> \o Lines(SubSeq(text, i + 1, Len(text)))
         ELSE <<text>>

\* how many ledger lines equal url
CountLines(url, text) ==
    Cardinality({i \in 1..Len(Lines(text)) : Lines(text)[i] = url})

(***************************************************************************)
(* Inputs                                                                  *)
(***************************************************************************)
base_url == <<"h">>

UrlA == <<"h", "/", "a">>               \* https://www.tctmd.com/a.pdf
UrlAA == <<"h", "/", "a", "/", "a">>    \* same final segment, UrlA is a prefix
UrlB == <<"h", "/", "b">>               \* unrelated
RelA == <<"/", "a">>                    \* a relative href
PdfUrls == {UrlA, UrlAA, UrlB, RelA}

Dirs == {"downloads", "mirror"}
Names == {Basename(u) : u \in PdfUrls}
Paths == Dirs \X Names

NoFile == [src |-> <<>>, whole |-> FALSE]

\* outcomes of the streamed GET of download_pdf: a status, "200x" for a 200
\* whose body stream raises after the destination file was opened, "exc" for
\* an exception raised by session.get itself
DlOutcomes == {"200", "200x", "403", "500", "exc"}

(***************************************************************************)
(* download_pdf                                                            *)
(***************************************************************************)
retry_count == 3

\* os.path.join(self.output_dir, url.split('/')[-1])
Filename(dir, url) == <<dir, Basename(url)>>

\* os.path.exists(filename); an empty final segment names the directory itself
Exists(fs, path) == path[2] = <<>> \/ fs[path] # NoFile

\* variant: the ledger is never consulted
InLedger_never(url, text) == FALSE
\* url in f.read()
InLedger(url, text) == IsSubstring(url, text)

\* variant: a finished download is not recorded
Record_nothing(url, text) == text
\* f.write(f"{url}\n") in append mode
Record(url, text) == text \o url \o <<NL>>

\* requests raises MissingSchema for a URL without a scheme before any I/O
HasScheme(url) == Len(url) > 0 /\ url[1] = "h"
Send(url, o) == IF HasScheme(url) THEN o ELSE "exc"

\* variant: 403 is retried like any other status
AfterAttempt_retry403(o) ==
    CASE o = "200" -> "return_true"
      [] OTHER -> "next"
\* variant: only a bad status is retried, an exception ends the call
AfterAttempt_noretry(o) ==
    CASE o = "200" -> "return_true"
      [] o = "500" -> "next"
      [] OTHER -> "return_false"
\* what the loop body does after one attempt
AfterAttempt(o) ==
    CASE o = "200" -> "return_true"
      [] o = "403" -> "return_false"
      [] OTHER -> "next"

\* variant: the URL is recorded as soon as the status is 200
LedgerAfter_early(text, url, o) ==
    IF o \in {"200", "200x"} THEN Record(url, text) ELSE text
\* the ledger after one attempt: appended to once the whole body is written
LedgerAfter(text, url, o) ==
    IF o = "200" THEN Record(url, text) ELSE text

\* time.sleep(2 ** attempt), reached only from the except clause
Backoff(o, k) ==
    IF o \in {"exc", "200x"} /\ k < retry_count - 1 THEN <<2 ^ k>> ELSE <<>>

\* the destination file after one attempt: open(filename, 'wb') and the chunks
WriteFile(fs, path, url, o) ==
    IF o \in {"200", "200x"}
    THEN [fs EXCEPT ![path] = [src |-> url, whole |-> (o = "200")]]
    ELSE fs

(***************************************************************************)
(* Initial state: the downloader as constructed by the entry point, with   *)
(* an empty output directory and an empty ledger file.                     *)
(***************************************************************************)
NoBody == [json |-> FALSE, dict |-> FALSE, success |-> "missing",
           data |-> "missing", cookie_redirect |-> "missing"]
NoResp == [raised |-> FALSE, status |-> 0]
NoPost == [raised |-> FALSE, status |-> 0, body |-> NoBody]
NoVerify == [raised |-> FALSE, status |-> 0, body_class |-> FALSE, in_text |-> FALSE]
NoHeaders == [Host |-> "none", Origin |-> "none", Referer |-> "none"]
NoSearch == [raised |-> FALSE, status |-> 0, content_block |-> FALSE, divs |-> <<>>]
NoPres == [raised |-> FALSE, status |-> 0, anchors |-> <<>>]

LoginLocals0 ==
    /\ reqs = <<>>
    /\ root_resp = NoResp
    /\ post_resp = NoPost
    /\ hop_resps = <<>>
    /\ verify_resp = NoVerify
    /\ current_url = "none"
    /\ okta_headers = NoHeaders

DlLocals0 ==
    /\ dl_url = <<>>
    /\ attempt = 0
    /\ dl_resps = <<>>
    /\ dl_sleeps = <<>>
    /\ dl_served = <<>>
    /\ dl_ledger0 = <<>>

RunLocals0 ==
    /\ issued = {}
    /\ pages = <<>>
    /\ search_resp = NoSearch
    /\ presentations = <<>>
    /\ idx = 0
    /\ pres_resp = NoPres
    /\ pdf_url = <<>>
    /\ download_count = 0

Init ==
    /\ output_dir = "downloads"
    /\ files = [p \in Paths |-> NoFile]
    /\ ledger = <<>>
    /\ pc = "idle"
    /\ entry = "none"
    /\ ret = "none"
    /\ login_ret = "none"
    /\ dl_ret = "none"
    /\ LoginLocals0
    /\ DlLocals0
    /\ RunLocals0

\* the locals of a method that is not running hold their initial values
ResetLogin ==
    /\ reqs' = <<>>
    /\ root_resp' = NoResp
    /\ post_resp' = NoPost
    /\ hop_resps' = <<>>
    /\ verify_resp' = NoVerify
    /\ current_url' = "none"
    /\ okta_headers' = NoHeaders

ResetDl ==
    /\ dl_url' = <<>>
    /\ attempt' = 0
    /\ dl_resps' = <<>>
    /\ dl_sleeps' = <<>>
    /\ dl_served' = <<>>
    /\ dl_ledger0' = <<>>

ResetRun ==
    /\ issued' = {}
    /\ pages' = <<>>
    /\ search_resp' = NoSearch
    /\ presentations' = <<>>
    /\ idx' = 0
    /\ pres_resp' = NoPres
    /\ pdf_url' = <<>>
    /\ download_count' = 0

\* __init__: a downloader on output directory d; the ledger file is kept
Construct(d) ==
    /\ pc = "idle"
    /\ output_dir' = d
    /\ entry' = "none"
    /\ ret' = "none"
    /\ login_ret' = "none"
    /\ dl_ret' = "none"
    /\ UNCHANGED <<files, ledger, pc>>
    /\ UNCHANGED <<reqs, root_resp, post_resp, hop_resps, verify_resp, current_url, okta_headers>>
    /\ UNCHANGED <<dl_url, attempt, dl_resps, dl_sleeps, dl_served, dl_ledger0>>
    /\ UNCHANGED runVars

(***************************************************************************)
(* download_pdf, step by step                                              *)
(***************************************************************************)
\* entering download_pdf(url)
EnterDownload(url) ==
    /\ dl_url' = url
    /\ attempt' = 0
    /\ dl_resps' = <<>>
    /\ dl_sleeps' = <<>>
    /\ dl_served' = <<>>
    /\ dl_ledger0' = ledger
    /\ dl_ret' = "none"
    /\ pc' = "dl_check"

\* the caller invokes download_pdf(url)
CallDownloadPdf(url) ==
    /\ pc = "idle"
    /\ entry' = "download_pdf"
    /\ ret' = "none"
    /\ login_ret' = "none"
    /\ EnterDownload(url)
    /\ UNCHANGED persistVars
    /\ UNCHANGED <<reqs, root_resp, post_resp, hop_resps, verify_resp, current_url, okta_headers>>
    /\ UNCHANGED runVars

\* the two "already done" checks before the retry loop
DlCheck ==
    /\ pc = "dl_check"
    /\ IF \/ Exists(files, Filename(output_dir, dl_url))
          \/ InLedger(dl_url, ledger)
       THEN /\ dl_ret' = "True"
            /\ pc' = "dl_return"
       ELSE /\ dl_ret' = dl_ret
            /\ pc' = IF retry_count > 0 THEN "dl_get" ELSE "dl_return"
    /\ UNCHANGED <<dl_url, attempt, dl_resps, dl_sleeps, dl_served, dl_ledger0>>
    /\ UNCHANGED <<persistVars, entry, ret, loginVars, runVars>>

\* one iteration of the retry loop: the GET, the file, the ledger
DlGet(o) ==
    /\ pc = "dl_get"
    /\ dl_served' = Append(dl_served, o)
    /\ LET r == Send(dl_url, o)
           path == Filename(output_dir, dl_url)
           step == AfterAttempt(r)
       IN /\ dl_resps' = Append(dl_resps, r)
          /\ files' = WriteFile(files, path, dl_url, r)
          /\ ledger' = LedgerAfter(ledger, dl_url, r)
          /\ dl_sleeps' = dl_sleeps \o Backoff(r, attempt)
          /\ IF step = "next" /\ attempt + 1 < retry_count
             THEN /\ attempt' = attempt + 1
                  /\ pc' = "dl_get"
                  /\ dl_ret' = dl_ret
             ELSE /\ attempt' = attempt
                  /\ pc' = "dl_return"
                  /\ dl_ret' = IF step = "return_true" THEN "True" ELSE "False"
    /\ issued' = IF entry = "download_all_pdfs" THEN issued \cup {"pdf"} ELSE issued
    /\ UNCHANGED <<output_dir, dl_url, dl_ledger0, entry, ret, loginVars>>
    /\ UNCHANGED <<pages, search_resp, presentations, idx, pres_resp, pdf_url, download_count>>

\* download_pdf has returned to the caller that invoked it directly
DlReturn ==
    /\ pc = "dl_return"
    /\ entry = "download_pdf"
    /\ ret' = dl_ret
    /\ pc' = "idle"
    /\ ResetDl
    /\ UNCHANGED <<persistVars, entry, dl_ret, loginVars, runVars>>

NextDownload ==
    \/ \E d \in Dirs : Construct(d)
    \/ \E u \in PdfUrls : CallDownloadPdf(u)
    \/ DlCheck
    \/ \E o \in DlOutcomes : DlGet(o)
    \/ DlReturn

\* the downloader used as a library: any sequence of download_pdf calls
SpecDownload == Init /\ [][NextDownload]_vars

(***************************************************************************)
(* login, follow_okta_redirect, verify_login                               *)
(***************************************************************************)
\* variant: one more hop is allowed
max_redirects_more == 5 + 1
\* max_redirects = 5 in follow_okta_redirect
max_redirects == 5
RedirectCodes == {301, 302, 303, 307}

Exc == [raised |-> TRUE, status |-> 0]
RootResponses == {Exc, [raised |-> FALSE, status |-> 200], [raised |-> FALSE, status |-> 500]}

\* bodies of the login response: json = the body decodes, dict = it decodes
\* to an object, then the fields of {success, data: {cookie_redirect}}
Body(j, d, s, dt, c) ==
    [json |-> j, dict |-> d, success |-> s, data |-> dt, cookie_redirect |-> c]
Bodies ==
    { Body(FALSE, FALSE, "missing", "missing", "missing"),   \* not JSON
      Body(TRUE, FALSE, "missing", "missing", "missing"),    \* a JSON array
      Body(TRUE, TRUE, "missing", "missing", "missing"),     \* {}
      Body(TRUE, TRUE, "false", "missing", "missing"),       \* {success:false}
      Body(TRUE, TRUE, "false", "dict", "idp"),              \* success false, redirect given
      Body(TRUE, TRUE, "true", "missing", "missing"),        \* {success:true}
      Body(TRUE, TRUE, "true", "null", "missing"),           \* {success:true, data:null}
      Body(TRUE, TRUE, "true", "dict", "missing"),           \* {success:true, data:{}}
      Body(TRUE, TRUE, "true", "dict", "idp"),               \* redirect to the identity provider
      Body(TRUE, TRUE, "true", "dict", "site") }
PostExc == [raised |-> TRUE, status |-> 0, body |-> NoBody]
PostResponses ==
    {PostExc} \cup [raised : {FALSE}, status : {200, 500}, body : Bodies]

Hop(s, l) == [raised |-> FALSE, status |-> s, location |-> l]
HopExc == [raised |-> TRUE, status |-> 0, location |-> "none"]
HopResponses ==
    {HopExc, Hop(200, "none"), Hop(404, "none")}
    \cup {Hop(s, l) : s \in {302, 307}, l \in {"none", "idp", "site"}}
    \cup {Hop(301, "site"), Hop(303, "idp")}
\* the responses drawn while login runs as the first step of a whole run
HopResponsesRun ==
    {HopExc, Hop(200, "none"), Hop(404, "none"), Hop(302, "none"), Hop(302, "site")}
PostResponsesRun ==
    {PostExc} \cup [raised : {FALSE}, status : {200}, body : Bodies]

VerifyExc == [raised |-> TRUE, status |-> 0, body_class |-> FALSE, in_text |-> FALSE]
Page(s, c, t) == [raised |-> FALSE, status |-> s, body_class |-> c, in_text |-> t]
VerifyResponses ==
    {VerifyExc, Page(500, FALSE, FALSE), Page(200, FALSE, FALSE),
     Page(200, FALSE, TRUE), Page(200, TRUE, TRUE)}

\* verify_login: except Exception: return False
VerifyCatch(r) == IF r = "raise" THEN "False" ELSE r

\* follow_okta_redirect: except Exception: return False
OktaCatch(r) == IF r = "raise" THEN "False" ELSE r

\* login, inner try: except Exception: return False
JsonCatch(r) == IF r = "raise" THEN "False" ELSE r

\* variant: login without its outer except clause
LoginCatch_none(r) == r
\* login, outer try: except Exception: return False
LoginCatch(r) == IF r = "raise" THEN "False" ELSE r

\* variant: the success field is not looked at
LoginParse_ignoreSuccess(body) ==
    IF ~body.json \/ ~body.dict THEN "raise"
    ELSE IF body.data = "null" THEN "raise"
    ELSE IF body.data = "missing" \/ body.cookie_redirect = "missing" THEN "fail"
    ELSE "follow"
\* response.json(), .get('success'), .get('data', {}).get('cookie_redirect')
LoginParse(body) ==
    IF ~body.json THEN "raise"
    ELSE IF ~body.dict THEN "raise"
    ELSE IF body.success # "true" THEN "fail"
    ELSE IF body.data = "null" THEN "raise"
    ELSE IF body.data = "missing" \/ body.cookie_redirect = "missing" THEN "fail"
    ELSE "follow"

\* what login does with the response to its POST
PostResult(resp) ==
    IF resp.raised THEN "raise"
    ELSE IF resp.status = 200 THEN LoginParse(resp.body)
    ELSE "fail"

\* what the redirect walk does with the response to one hop
HopResult(resp) ==
    IF resp.raised THEN "raise"
    ELSE IF resp.status \in RedirectCodes
         THEN IF resp.location = "none" THEN "fail" ELSE "continue"
    ELSE IF resp.status = 200 THEN "verify"
    ELSE "fail"

\* variant: any 200 counts as verified
VerifyResult_any200(resp) ==
    IF resp.raised THEN "raise"
    ELSE IF resp.status = 200 THEN "True"
    ELSE "False"
\* verify_login on the response to its GET of the site root
VerifyResult(resp) ==
    IF resp.raised THEN "raise"
    ELSE IF resp.status = 200
         THEN IF resp.body_class \/ resp.in_text THEN "True" ELSE "False"
    ELSE "False"

\* the Host header set before each hop from the host of current_url
HostFor(url, headers) ==
    IF url = "idp" THEN [headers EXCEPT !.Host = "idp"]
    ELSE IF url = "site" THEN [headers EXCEPT !.Host = "site"]
    ELSE headers

\* the headers after a redirect to location
HeadersAfterRedirect(location, headers) ==
    IF location = "site"
    THEN [headers EXCEPT !.Host = "site", !.Origin = "site", !.Referer = "idp"]
    ELSE headers

\* current_url after a hop: a redirect status assigns
\* response.headers.get('location'), None ("none") without the header,
\* before the test for a missing Location
UrlAfterHop(resp, url) ==
    IF ~resp.raised /\ resp.status \in RedirectCodes THEN resp.location ELSE url

Note(kind) == IF entry = "download_all_pdfs" THEN issued \cup {kind} ELSE issued

\* entering login()
EnterLogin ==
    /\ ResetLogin
    /\ login_ret' = "none"
    /\ pc' = "login_root"

\* the caller invokes login()
CallLogin ==
    /\ pc = "idle"
    /\ entry' = "login"
    /\ ret' = "none"
    /\ dl_ret' = "none"
    /\ EnterLogin
    /\ ResetRun
    /\ UNCHANGED <<persistVars, dl_url, attempt, dl_resps, dl_sleeps, dl_served, dl_ledger0>>

\* session.cookies.clear(); session.get(base_url)
LoginRoot(resp) ==
    /\ pc = "login_root"
    /\ reqs' = Append(reqs, "root")
    /\ root_resp' = resp
    /\ issued' = Note("root")
    /\ IF resp.raised
       THEN /\ login_ret' = LoginCatch("raise")
            /\ pc' = "login_return"
       ELSE /\ login_ret' = login_ret
            /\ pc' = "login_post"
    /\ UNCHANGED <<post_resp, hop_resps, verify_resp, current_url, okta_headers>>
    /\ UNCHANGED <<persistVars, entry, ret, dlVars>>
    /\ UNCHANGED <<pages, search_resp, presentations, idx, pres_resp, pdf_url, download_count>>

\* session.post(login_url) and the reading of its JSON body
LoginPost(resp) ==
    /\ pc = "login_post"
    /\ reqs' = Append(reqs, "post")
    /\ post_resp' = resp
    /\ issued' = Note("post")
    /\ LET r == PostResult(resp)
       IN IF r = "follow"
          THEN /\ current_url' = resp.body.cookie_redirect
               /\ okta_headers' = [Host |-> "idp", Origin |-> "none", Referer |-> "site"]
               /\ login_ret' = login_ret
               /\ pc' = IF max_redirects > 0 THEN "okta_hop" ELSE "login_return"
          ELSE /\ login_ret' = LoginCatch(IF resp.raised THEN "raise"
                                          ELSE IF r = "raise" THEN JsonCatch("raise")
                                          ELSE "False")
               /\ pc' = "login_return"
               /\ UNCHANGED <<current_url, okta_headers>>
    /\ UNCHANGED <<root_resp, hop_resps, verify_resp>>
    /\ UNCHANGED <<persistVars, entry, ret, dlVars>>
    /\ UNCHANGED <<pages, search_resp, presentations, idx, pres_resp, pdf_url, download_count>>

\* one iteration of the redirect loop of follow_okta_redirect
OktaHop(resp) ==
    /\ pc = "okta_hop"
    /\ reqs' = Append(reqs, "hop")
    /\ hop_resps' = Append(hop_resps, resp)
    /\ issued' = Note("hop")
    /\ LET step == HopResult(resp)
           sent == HostFor(current_url, okta_headers)
       IN CASE step = "continue" ->
                 /\ current_url' = UrlAfterHop(resp, current_url)
                 /\ okta_headers' = HeadersAfterRedirect(resp.location, sent)
                 /\ IF Len(hop_resps) + 1 < max_redirects
                    THEN /\ pc' = "okta_hop"
                         /\ login_ret' = login_ret
                    ELSE /\ pc' = "login_return"
                         /\ login_ret' = LoginCatch(JsonCatch(OktaCatch("False")))
            [] step = "verify" ->
                 /\ pc' = "verify"
                 /\ okta_headers' = sent
                 /\ UNCHANGED <<current_url, login_ret>>
            [] OTHER ->
                 /\ pc' = "login_return"
                 /\ okta_headers' = sent
                 /\ login_ret' = LoginCatch(JsonCatch(OktaCatch(
                                     IF step = "raise" THEN "raise" ELSE "False")))
                 /\ current_url' = UrlAfterHop(resp, current_url)
    /\ UNCHANGED <<root_resp, post_resp, verify_resp>>
    /\ UNCHANGED <<persistVars, entry, ret, dlVars>>
    /\ UNCHANGED <<pages, search_resp, presentations, idx, pres_resp, pdf_url, download_count>>

\* verify_login, whose result follow_okta_redirect and login return
VerifyLogin(resp) ==
    /\ pc = "verify"
    /\ reqs' = Append(reqs, "verify")
    /\ verify_resp' = resp
    /\ issued' = Note("verify")
    /\ login_ret' = LoginCatch(JsonCatch(OktaCatch(VerifyCatch(VerifyResult(resp)))))
    /\ pc' = "login_return"
    /\ UNCHANGED <<root_resp, post_resp, hop_resps, current_url, okta_headers>>
    /\ UNCHANGED <<persistVars, entry, ret, dlVars>>
    /\ UNCHANGED <<pages, search_resp, presentations, idx, pres_resp, pdf_url, download_count>>

\* login has returned to the caller that invoked it directly
LoginReturn ==
    /\ pc = "login_return"
    /\ entry = "login"
    /\ ret' = login_ret
    /\ pc' = "idle"
    /\ ResetLogin
    /\ UNCHANGED <<persistVars, entry, login_ret, dlVars, runVars>>

NextLogin ==
    \/ CallLogin
    \/ \E r \in RootResponses : LoginRoot(r)
    \/ \E r \in PostResponses : LoginPost(r)
    \/ \E r \in HopResponses : OktaHop(r)
    \/ \E r \in VerifyResponses : VerifyLogin(r)
    \/ LoginReturn

\* the downloader used as a library: any sequence of login calls
SpecLogin == Init /\ [][NextLogin]_vars

(***************************************************************************)
(* get_presentation_urls_from_page, get_pdf_url_from_presentation          *)
(***************************************************************************)
Slide1 == <<"/", "s", "/", "1">>      \* /slide/1
Slide2 == <<"/", "s", "/", "2">>
Slide3 == <<"/", "s", "/", "3">>
Other == <<"/", "x">>                 \* a link that is no slide link

\* a search page: status, whether div#block-tctmd-content is there, and for
\* each div.search-page__results the hrefs of its anchors in document order
Search(s, c, d) == [raised |-> FALSE, status |-> s, content_block |-> c, divs |-> d]
SearchExc == [raised |-> TRUE, status |-> 0, content_block |-> FALSE, divs |-> <<>>]
SearchResponses ==
    { SearchExc,
      Search(500, FALSE, <<>>),
      Search(200, FALSE, <<>>),
      Search(200, TRUE, <<>>),
      Search(200, TRUE, <<<<Slide1>>>>),
      Search(200, TRUE, <<<<Slide1>>, <<Slide1>>, <<Slide2>>>>),
      Search(200, TRUE, <<<<Slide1>>, <<Slide2>>, <<Slide3>>>>),
      Search(200, TRUE, <<<<Other, Slide1>>, <<base_url \o Slide2>>>>),
      Search(200, TRUE, <<<<Other>>, <<>>>>) }

\* urljoin(self.base_url, href)
urljoin(base, href) ==
    IF HasScheme(href) THEN href
    ELSE IF Len(href) > 0 /\ href[1] = "/" THEN base \o href
    ELSE base \o <<"/">> \o href

\* div.find('a', href=True): the first anchor of the block, <<>> for None
FirstLink(div) == IF Len(div) > 0 THEN div[1] ELSE <<>>

\* the loop over slide_divs
RECURSIVE Collect(_, _)
Collect(divs, found) ==
    IF divs = <<>> THEN found
    ELSE LET link == FirstLink(Head(divs))
             full_url == urljoin(base_url, link)
         IN Collect(Tail(divs),
                    IF link # <<>> /\ IsSubstring(<<"/", "s", "/">>, link)
                       /\ ~(\E i \in 1..Len(found) : found[i] = full_url)
                    THEN Append(found, full_url)
                    ELSE found)

get_presentation_urls_from_page(resp) ==
    IF resp.raised THEN <<>>
    ELSE IF resp.status # 200 THEN <<>>
    ELSE IF ~resp.content_block THEN <<>>
    ELSE IF resp.divs = <<>> THEN <<>>
    ELSE Collect(resp.divs, <<>>)

\* a presentation page: its anchors in document order, each with its href
\* and whether it carries data-feathr-click-track="true"
Anchor(h, t) == [href |-> h, track |-> t]
Pres(s, a) == [raised |-> FALSE, status |-> s, anchors |-> a]
PresExc == [raised |-> TRUE, status |-> 0, anchors |-> <<>>]
PresResponses ==
    { PresExc,
      Pres(404, <<>>),
      Pres(200, <<>>),
      Pres(200, <<Anchor(UrlA, TRUE)>>),
      Pres(200, <<Anchor(UrlB, TRUE)>>),
      Pres(200, <<Anchor(RelA, TRUE)>>),
      Pres(200, <<Anchor(UrlB, FALSE)>>),
      Pres(200, <<Anchor(base_url \o Other, TRUE), Anchor(UrlA, TRUE)>>) }

PdfNames == {"a", "b"}
\* x.endswith('.pdf')
EndsWithPdf(href) == Len(href) > 0 /\ href[Len(href)] \in PdfNames

\* soup.find('a', attrs={'data-feathr-click-track': 'true', 'href': ...})
RECURSIVE FindPdfLink(_)
FindPdfLink(anchors) ==
    IF anchors = <<>> THEN <<>>
    ELSE IF Head(anchors).track /\ EndsWithPdf(Head(anchors).href)
         THEN Head(anchors).href
         ELSE FindPdfLink(Tail(anchors))

\* variant: the href is made absolute before it is returned
get_pdf_url_from_presentation_joined(resp) ==
    IF resp.raised THEN <<>>
    ELSE IF resp.status # 200 THEN <<>>
    ELSE IF FindPdfLink(resp.anchors) = <<>> THEN <<>>
    ELSE urljoin(base_url, FindPdfLink(resp.anchors))
\* the href found, <<>> for None
get_pdf_url_from_presentation(resp) ==
    IF resp.raised THEN <<>>
    ELSE IF resp.status # 200 THEN <<>>
    ELSE FindPdfLink(resp.anchors)

(***************************************************************************)
(* download_all_pdfs                                                       *)
(***************************************************************************)
\* variant: the result of login is not checked
AfterLogin_ignore(r) == "list"
\* if not self.login(): return False
AfterLogin(r) == IF r = "True" THEN "list" ELSE "return_false"

\* TCTMDDownloader(USERNAME, PASSWORD, test_mode=True): the flag the entry
\* point sets, which no method reads
test_mode == TRUE

\* presentations[:2]
FirstTwo(seq) == SubSeq(seq, 1, IF Len(seq) < 2 THEN Len(seq) ELSE 2)

\* the entry point: download_all_pdfs() on the constructed downloader
CallRun ==
    /\ pc = "idle"
    /\ entry' = "download_all_pdfs"
    /\ ret' = "none"
    /\ dl_ret' = "none"
    /\ EnterLogin
    /\ ResetRun
    /\ UNCHANGED <<persistVars, dl_url, attempt, dl_resps, dl_sleeps, dl_served, dl_ledger0>>

\* login has returned into download_all_pdfs
RunAfterLogin ==
    /\ pc = "login_return"
    /\ entry = "download_all_pdfs"
    /\ IF AfterLogin(login_ret) = "list"
       THEN /\ pc' = "list"
            /\ ret' = ret
       ELSE /\ pc' = "idle"
            /\ ret' = "False"
    /\ ResetLogin
    /\ UNCHANGED <<persistVars, entry, login_ret, dlVars, runVars>>

\* the for loop over presentations[:2] moves on, or the run returns True
Advance ==
    /\ idx' = idx + 1
    /\ IF idx + 1 < Len(FirstTwo(presentations))
       THEN /\ pc' = "resolve"
            /\ ret' = ret
       ELSE /\ pc' = "idle"
            /\ ret' = "True"

\* presentations = self.get_presentation_urls_from_page(1)
ListPage(resp) ==
    /\ pc = "list"
    /\ pages' = Append(pages, 1)
    /\ issued' = Note("search")
    /\ presentations' = get_presentation_urls_from_page(resp)
    /\ IF presentations' = <<>>
       THEN /\ pc' = "idle"
            /\ ret' = "False"
       ELSE /\ pc' = "resolve"
            /\ ret' = ret
    /\ search_resp' = resp
    /\ UNCHANGED <<idx, pres_resp, pdf_url, download_count>>
    /\ UNCHANGED <<persistVars, entry, loginVars, dlVars>>

\* pdf_url = self.get_pdf_url_from_presentation(presentation_url)
Resolve(resp) ==
    /\ pc = "resolve"
    /\ issued' = Note("presentation")
    /\ pdf_url' = get_pdf_url_from_presentation(resp)
    /\ IF pdf_url' # <<>>
       THEN /\ EnterDownload(pdf_url')
            /\ UNCHANGED <<idx, ret>>
       ELSE /\ Advance
            /\ UNCHANGED dlVars
    /\ pres_resp' = resp
    /\ UNCHANGED <<pages, search_resp, presentations, download_count>>
    /\ UNCHANGED <<persistVars, entry, loginVars>>

\* download_pdf has returned into download_all_pdfs
RunAfterDownload ==
    /\ pc = "dl_return"
    /\ entry = "download_all_pdfs"
    /\ download_count' = IF dl_ret = "True" THEN download_count + 1 ELSE download_count
    /\ Advance
    /\ ResetDl
    /\ UNCHANGED <<issued, pages, search_resp, presentations, pres_resp, pdf_url>>
    /\ UNCHANGED <<persistVars, entry, dl_ret, loginVars>>

Next ==
    \/ CallRun
    \/ \E r \in RootResponses : LoginRoot(r)
    \/ \E r \in PostResponsesRun : LoginPost(r)
    \/ \E r \in HopResponsesRun : OktaHop(r)
    \/ \E r \in VerifyResponses : VerifyLogin(r)
    \/ RunAfterLogin
    \/ \E r \in SearchResponses : ListPage(r)
    \/ \E r \in PresResponses : Resolve(r)
    \/ DlCheck
    \/ \E o \in DlOutcomes : DlGet(o)
    \/ RunAfterDownload

\* the program: each run is download_all_pdfs() on a new downloader that
\* finds the files and the ledger the earlier runs left
Spec == Init /\ [][Next]_vars

(***************************************************************************)
(* Properties of download_pdf, checked under SpecDownload                  *)
(***************************************************************************)
\* the destination of the current download_pdf call
Dest == <<output_dir, Basename(dl_url)>>

\* GET outcomes after which the loop goes on: another status, an exception
\* of the GET, an exception while the body is streamed
Transient == {"500", "exc", "200x"}

\* C1: a download_pdf(u) call that finds a file at output_dir/<final segment
\* of u>, or a ledger line equal to u, returns success at once and issues no
\* GET.
C1_ShortCircuit ==
    [][(/\ pc = "dl_check"
        /\ \/ files[Dest] # NoFile
           \/ CountLines(dl_url, ledger) > 0)
       => (pc' = "dl_return" /\ dl_ret' = "True" /\ dl_resps' = <<>>)]_vars

\* reached: download_pdf returned success without a GET for a URL that has
\* no local file and is on the ledger
C1_Witness ==
    /\ pc = "dl_return"
    /\ dl_ret = "True"
    /\ dl_resps = <<>>
    /\ files[Dest] = NoFile
    /\ CountLines(dl_url, ledger) = 1

\* C2: every URL that was downloaded successfully (its complete file is on
\* disk) is on exactly one ledger line, in every later state however often
\* download_pdf is called again, and the call that downloaded it returns
\* with it on exactly one line.
C2_RecordedOnce ==
    /\ \A p \in Paths : files[p].whole => CountLines(files[p].src, ledger) = 1
    /\ (pc = "dl_return" /\ dl_ret = "True" /\ dl_resps # <<>>)
           => CountLines(dl_url, ledger) = 1

\* reached: two 500 responses, then 200 on the third attempt, success, and
\* one ledger line for the URL
C2_Witness ==
    /\ pc = "dl_return"
    /\ dl_resps = <<"500", "500", "200">>
    /\ dl_ret = "True"
    /\ CountLines(dl_url, ledger) = 1

\* C3: download_pdf(u) never returns success while the destination holds
\* only the partial write of u that a failed call left, unless u has since
\* been fetched again with a complete 200 body.
C3_PartialNotCompleted ==
    (/\ pc = "dl_return"
     /\ dl_ret = "True"
     /\ files[Dest] = [src |-> dl_url, whole |-> FALSE])
    => \E p \in Paths : files[p] = [src |-> dl_url, whole |-> TRUE]

\* C4: a 403 is the last GET of its download_pdf call (the only one when it
\* answers the first attempt); the call has returned failure and the ledger
\* is as the call found it.
C4_NoRetryAfter403 ==
    \A k \in 1..Len(dl_resps) :
        dl_resps[k] = "403"
        => /\ k = Len(dl_resps)
           /\ pc = "dl_return"
           /\ dl_ret = "False"
           /\ ledger = dl_ledger0

\* reached: 403 on the first attempt, with two attempts of the budget left
C4_Witness ==
    /\ pc = "dl_return"
    /\ dl_resps = <<"403">>
    /\ attempt = 0
    /\ dl_ret = "False"

\* C5: a download_pdf call issues at most 3 GETs; after a transient failure
\* with attempts left the next step is another GET; after a third transient
\* failure the call has returned failure.
C5_BoundedRetries ==
    /\ Len(dl_resps) <= 3
    /\ (/\ dl_resps # <<>>
        /\ Len(dl_resps) < 3
        /\ dl_resps[Len(dl_resps)] \in Transient) => pc = "dl_get"
    /\ (/\ Len(dl_resps) = 3
        /\ dl_resps[3] \in Transient) => (pc = "dl_return" /\ dl_ret = "False")

\* reached: three attempts, each failing in a different transient way
C5_Witness ==
    /\ pc = "dl_return"
    /\ dl_resps = <<"500", "exc", "200x">>
    /\ dl_ret = "False"

\* C14: the ledger changes only by a GET step of download_pdf that received
\* 200 and wrote the whole body, and then by appending the line of the URL
\* of that call; a call that returns failure leaves the ledger as it found
\* it, a body stream that breaks adds no line.
C14_LedgerAppendOnly ==
    [][/\ ledger' # ledger
           => /\ pc = "dl_get"
              /\ dl_resps' = Append(dl_resps, "200")
              /\ ledger' = ledger \o dl_url \o <<NL>>
       /\ dl_resps' = Append(dl_resps, "200x")
           => ledger' = ledger
       /\ (pc' = "dl_return" /\ dl_ret' = "False") => ledger' = dl_ledger0']_vars

\* reached: the body stream broke on each of the three attempts, the call
\* returned failure with a partial file and the ledger it found, which
\* already held a line
C14_Witness ==
    /\ pc = "dl_return"
    /\ dl_resps = <<"200x", "200x", "200x">>
    /\ dl_ret = "False"
    /\ files[Dest] = [src |-> dl_url, whole |-> FALSE]
    /\ dl_ledger0 # <<>>
    /\ ledger = dl_ledger0

\* C15: within one download_pdf call a pause precedes every attempt but the
\* first, the pause after the attempt with index k is 2^k seconds, and no
\* pause follows the last attempt.
C15_BackoffBetweenAttempts ==
    /\ pc = "dl_get" => Len(dl_sleeps) = Len(dl_resps)
    /\ \A k \in 1..Len(dl_sleeps) : dl_sleeps[k] = 2 ^ (k - 1)
    /\ (pc = "dl_return" /\ dl_resps # <<>>)
           => Len(dl_sleeps) = Len(dl_resps) - 1

\* C19: a download_pdf(u) call that finds no local file and returns success
\* without a GET found a ledger line equal to u.
C19_ExactMembership ==
    (/\ pc = "dl_return"
     /\ dl_ret = "True"
     /\ dl_resps = <<>>
     /\ ~Exists(files, Dest))
    => CountLines(dl_url, ledger) > 0

\* C20: a download_pdf(u) call returns success only with u on a ledger
\* line, which is where every URL fetched with a complete 200 is put; the
\* complete file of another URL with the same final segment does not count.
C20_DistinctUrls ==
    (/\ pc = "dl_return"
     /\ dl_ret = "True"
     /\ ~(files[Dest].src = dl_url /\ ~files[Dest].whole))
    => CountLines(dl_url, ledger) > 0

(***************************************************************************)
(* Properties of login, checked under SpecLogin                            *)
(***************************************************************************)
\* the POST returned 200 with JSON whose success is true and whose
\* data.cookie_redirect is present
GoodPost(r) ==
    /\ ~r.raised
    /\ r.status = 200
    /\ r.body.json
    /\ r.body.dict
    /\ r.body.success = "true"
    /\ r.body.data = "dict"
    /\ r.body.cookie_redirect # "missing"

\* the walk reached a 200 within the hop limit through redirects that each
\* carry a Location header
GoodWalk(hs) ==
    /\ Len(hs) \in 1..5
    /\ ~hs[Len(hs)].raised
    /\ hs[Len(hs)].status = 200
    /\ \A k \in 1..(Len(hs) - 1) :
           /\ ~hs[k].raised
           /\ hs[k].status \in {301, 302, 303, 307}
           /\ hs[k].location # "none"

\* the follow-up fetch of the site root returned 200 with the marker
GoodVerify(r) ==
    /\ ~r.raised
    /\ r.status = 200
    /\ (r.body_class \/ r.in_text)

\* C6: login returns True exactly when the POST was good, then the redirect
\* walk reached a 200, then the verification found the marker, the requests
\* being issued in that order.
C6_LoginTrueIff ==
    pc = "login_return"
    => (login_ret = "True"
        <=> /\ GoodPost(post_resp)
            /\ GoodWalk(hop_resps)
            /\ GoodVerify(verify_resp)
            /\ reqs = <<"root", "post">> \o [k \in 1..Len(hop_resps) |-> "hop"]
                          \o <<"verify">>)

\* reached: redirect to the identity provider, one 302 to the site, one 200,
\* the marker present, login True
C6_Witness ==
    /\ pc = "login_return"
    /\ login_ret = "True"
    /\ post_resp.body.cookie_redirect = "idp"
    /\ hop_resps = <<Hop(302, "site"), Hop(200, "none")>>
    /\ verify_resp = Page(200, TRUE, TRUE)

\* C7: once the POST has answered with success false, no hop and no
\* verification request is issued and login returns False.
C7_NoRequestAfterRefusal ==
    (/\ ~post_resp.raised
     /\ post_resp.body.json
     /\ post_resp.body.dict
     /\ post_resp.body.success = "false")
    => /\ pc \notin {"okta_hop", "verify"}
       /\ hop_resps = <<>>
       /\ verify_resp = NoVerify
       /\ pc = "login_return" => (login_ret = "False" /\ reqs = <<"root", "post">>)

\* reached: the POST answered 200 {success:false} and login returned False
C7_Witness ==
    /\ pc = "login_return"
    /\ post_resp = [raised |-> FALSE, status |-> 200,
                    body |-> Body(TRUE, TRUE, "false", "missing", "missing")]
    /\ login_ret = "False"
    /\ reqs = <<"root", "post">>

\* some network call of login raised, or the POST came back with another
\* status, an undecodable or wrongly shaped body, or a missing field
LoginFailure ==
    \/ root_resp.raised
    \/ post_resp.raised
    \/ \E k \in 1..Len(hop_resps) : hop_resps[k].raised
    \/ verify_resp.raised
    \/ /\ Len(reqs) >= 2
       /\ ~post_resp.raised
       /\ \/ post_resp.status # 200
          \/ ~post_resp.body.json
          \/ ~post_resp.body.dict
          \/ post_resp.body.success = "missing"
          \/ post_resp.body.cookie_redirect = "missing"

\* C8: login never raises: it returns True or False, and False after every
\* failure of one of its network calls or of the reading of the POST body.
C8_NoExceptionEscapes ==
    /\ login_ret # "raise"
    /\ ret # "raise"
    /\ pc = "login_return"
       => /\ login_ret \in {"True", "False"}
          /\ LoginFailure => login_ret = "False"

\* reached: the second hop GET raised and login returned False
C8_Witness ==
    /\ pc = "login_return"
    /\ Len(hop_resps) = 2
    /\ hop_resps[2].raised
    /\ login_ret = "False"

\* a hop response that is a redirect carrying a Location header
RedirectHop(h) ==
    ~h.raised /\ h.status \in {301, 302, 303, 307} /\ h.location # "none"

\* a hop response that is a redirect without Location, or has a status
\* that is neither a redirect nor 200
BadHop(h) ==
    /\ ~h.raised
    /\ \/ (h.status \in {301, 302, 303, 307} /\ h.location = "none")
       \/ h.status \notin {301, 302, 303, 307, 200}

\* C16: the redirect walk issues at most 5 hop GETs; a redirect with a
\* Location continues the walk at that location; a redirect without
\* Location or another status than 301/302/303/307/200 is the last request
\* of the login and makes it fail; after 5 redirects in a row the login has
\* failed with no sixth hop and no verification fetch.
C16_BoundedWalk ==
    /\ Len(hop_resps) <= 5
    /\ \A k \in 1..Len(hop_resps) :
           /\ k < Len(hop_resps) => RedirectHop(hop_resps[k])
           /\ (RedirectHop(hop_resps[k]) /\ k = Len(hop_resps))
                  => /\ current_url = hop_resps[k].location
                     /\ k < 5 => pc = "okta_hop"
           /\ BadHop(hop_resps[k])
                  => /\ k = Len(hop_resps)
                     /\ pc = "login_return"
                     /\ login_ret = "False"
                     /\ reqs[Len(reqs)] = "hop"
                     /\ verify_resp = NoVerify
    /\ (Len(hop_resps) = 5 /\ RedirectHop(hop_resps[5]))
           => /\ pc = "login_return"
              /\ login_ret = "False"
              /\ reqs[Len(reqs)] = "hop"
              /\ verify_resp = NoVerify

\* reached: five redirects in a row, of all four redirect statuses, and the
\* login has failed without a verification fetch
C16_Witness ==
    /\ pc = "login_return"
    /\ Len(hop_resps) = 5
    /\ \A k \in 1..5 : RedirectHop(hop_resps[k])
    /\ {hop_resps[k].status : k \in 1..5} = {301, 302, 303, 307}
    /\ login_ret = "False"
    /\ verify_resp = NoVerify

(***************************************************************************)
(* Properties of a run, checked under Spec                                 *)
(***************************************************************************)
AfterLoginKinds == {"search", "presentation", "pdf"}
RunEnded == entry = "download_all_pdfs" /\ pc = "idle" /\ ret # "none"

\* C9: a run issues a search, presentation or PDF request only after login
\* returned True, and a run whose login returned False ends in failure
\* having issued none of them.
C9_LoginBeforeListing ==
    /\ issued \cap AfterLoginKinds # {} => login_ret = "True"
    /\ pc \in {"list", "resolve", "dl_check", "dl_get", "dl_return"}
           => login_ret = "True"
    /\ (RunEnded /\ login_ret = "False")
           => (ret = "False" /\ issued \cap AfterLoginKinds = {})

\* reached: login returned False after its POST and the run ended in failure
C9_Witness ==
    /\ RunEnded
    /\ login_ret = "False"
    /\ "post" \in issued
    /\ ret = "False"

\* C10: a run that got past login ends its pagination on an empty page,
\* having requested pages 1, 2, ... in order, and the empty page does not
\* make the run fail.
C10_PaginatesUntilEmpty ==
    (RunEnded /\ login_ret = "True")
    => /\ presentations = <<>>
       /\ pages = [k \in 1..Len(pages) |-> k]
       /\ ret = "True"

\* C11: in test mode a run never counts more than 2 successful downloads,
\* and it ends only when 2 downloads have succeeded or every listed
\* presentation has been processed.
C11_TestModeCap ==
    test_mode
    => /\ download_count <= 2
       /\ (RunEnded /\ login_ret = "True" /\ presentations # <<>>)
              => (download_count = 2 \/ idx = Len(presentations))

\* C12: a run whose login succeeded does not end in failure, whatever the
\* listing, the resolutions and the downloads did.
C12_OnlyLoginAborts ==
    (RunEnded /\ login_ret = "True") => ret = "True"

\* C17: in a run, when the resolver returned a relative href and the site
\* answers the first GET for that PDF with a complete 200, download_pdf
\* issues that one GET and returns success.
C17_RelativeHrefFetched ==
    (/\ entry = "download_all_pdfs"
     /\ pc = "dl_return"
     /\ ~HasScheme(dl_url)
     /\ dl_served # <<>>
     /\ dl_served[1] = "200")
    => (dl_ret = "True" /\ dl_resps = <<"200">>)

(***************************************************************************)
(* The two page readers called on their own, on every page up to a size    *)
(***************************************************************************)
MaxAnchors == 2
MaxDivs == 2
MaxLinks == 2

SeqsUpTo(S, n) == UNION {[1..k -> S] : k \in 0..n}

AnchorSet ==
    {Anchor(h, t) : h \in {UrlA, UrlB, RelA, base_url \o Other}, t \in BOOLEAN}
AllPresResponses ==
    {PresExc}
    \cup {Pres(st, a) : st \in {200, 404}, a \in SeqsUpTo(AnchorSet, MaxAnchors)}

Links == {Slide1, Other, base_url \o Slide2}
AllSearchResponses ==
    {SearchExc, Search(500, FALSE, <<>>), Search(200, FALSE, <<>>)}
    \cup {Search(200, TRUE, d) : d \in SeqsUpTo(SeqsUpTo(Links, MaxLinks), MaxDivs)}

\* the caller invokes get_presentation_urls_from_page(page_num)
CallListing(resp) ==
    /\ pc = "idle"
    /\ entry' = "get_presentation_urls_from_page"
    /\ ret' = "none"
    /\ search_resp' = resp
    /\ presentations' = get_presentation_urls_from_page(resp)
    /\ pres_resp' = NoPres
    /\ pdf_url' = <<>>
    /\ pc' = "pg_return"
    /\ UNCHANGED <<issued, pages, idx, download_count>>
    /\ UNCHANGED <<persistVars, loginVars, dlVars>>

\* the caller invokes get_pdf_url_from_presentation(presentation_url)
CallResolve(resp) ==
    /\ pc = "idle"
    /\ entry' = "get_pdf_url_from_presentation"
    /\ ret' = "none"
    /\ pres_resp' = resp
    /\ pdf_url' = get_pdf_url_from_presentation(resp)
    /\ search_resp' = NoSearch
    /\ presentations' = <<>>
    /\ pc' = "pg_return"
    /\ UNCHANGED <<issued, pages, idx, download_count>>
    /\ UNCHANGED <<persistVars, loginVars, dlVars>>

\* the reader has returned its value to the caller
PagesReturn ==
    /\ pc = "pg_return"
    /\ pc' = "idle"
    /\ entry' = "none"
    /\ ResetRun
    /\ UNCHANGED <<persistVars, ret, loginVars, dlVars>>

\* a reader is called only when no call is under way
NextPages ==
    \/ pc = "idle" /\ \E r \in AllSearchResponses : CallListing(r)
    \/ pc = "idle" /\ \E r \in AllPresResponses : CallResolve(r)
    \/ PagesReturn

\* the downloader used as a library: any sequence of calls of the readers
SpecPages == Init /\ [][NextPages]_vars

(***************************************************************************)
(* Properties of the page readers, checked under SpecPages                 *)
(***************************************************************************)
Resolved == entry = "get_pdf_url_from_presentation" /\ pc = "pg_return"
Listed == entry = "get_presentation_urls_from_page" /\ pc = "pg_return"

\* positions of the anchors of a page whose href ends in .pdf
PdfAnchors(resp) ==
    {k \in 1..Len(resp.anchors) : EndsWithPdf(resp.anchors[k].href)}

\* the page could not be fetched
FetchFailed(resp) == resp.raised \/ resp.status # 200

\* C13 as stated: on a 200 page with exactly one anchor whose href ends in
\* .pdf the resolver returns that href unchanged; it returns nothing when
\* there is no such anchor or the fetch failed.
C13_ReturnsThePdfHref ==
    Resolved
    => /\ (~FetchFailed(pres_resp) /\ Cardinality(PdfAnchors(pres_resp)) = 1)
              => \A k \in PdfAnchors(pres_resp) : pdf_url = pres_resp.anchors[k].href
       /\ (FetchFailed(pres_resp) \/ PdfAnchors(pres_resp) = {}) => pdf_url = <<>>

\* C13 amended: on a 200 page with exactly one anchor whose href ends in
\* .pdf, that anchor carrying data-feathr-click-track="true", the resolver
\* returns that href unchanged; it returns nothing when no anchor with the
\* attribute has such an href or the fetch failed.
C13_ReturnsTheTrackedPdfHref ==
    Resolved
    => /\ (~FetchFailed(pres_resp) /\ Cardinality(PdfAnchors(pres_resp)) = 1)
              => \A k \in PdfAnchors(pres_resp) :
                     pres_resp.anchors[k].track
                         => pdf_url = pres_resp.anchors[k].href
       /\ (\/ FetchFailed(pres_resp)
           \/ \A k \in PdfAnchors(pres_resp) : ~pres_resp.anchors[k].track)
              => pdf_url = <<>>

\* reached: the page holds the one tracked anchor with the relative href,
\* and that href is returned as it is
C13_Witness ==
    /\ Resolved
    /\ pres_resp = Pres(200, <<Anchor(RelA, TRUE)>>)
    /\ pdf_url = RelA

\* the first link of a block that is a slide link, <<>> when it has none
RECURSIVE FirstSlideLink(_)
FirstSlideLink(div) ==
    IF div = <<>> THEN <<>>
    ELSE IF IsSubstring(<<"/", "s", "/">>, Head(div)) THEN Head(div)
    ELSE FirstSlideLink(Tail(div))

\* the absolute URLs of the first slide links of the blocks, each once
RECURSIVE SlideUrls(_, _)
SlideUrls(divs, found) ==
    IF divs = <<>> THEN found
    ELSE LET link == FirstSlideLink(Head(divs))
             url == IF HasScheme(link) THEN link ELSE base_url \o link
         IN SlideUrls(Tail(divs),
                      IF link # <<>> /\ \A i \in 1..Len(found) : found[i] # url
                      THEN Append(found, url)
                      ELSE found)

\* C18: the listing of a page is, block by block in page order, the first
\* link of the block that contains /slide/, made absolute, without
\* duplicates.
C18_FirstSlideLinkPerBlock ==
    (Listed /\ ~search_resp.raised /\ search_resp.status = 200
        /\ search_resp.content_block)
    => presentations = SlideUrls(search_resp.divs, <<>>)

====
